---- MODULE Spec2Model ----
(***************************************************************************)
(* Model of tutorials/llm/automodel/sft.ipynb: the make_strategy helper    *)
(* and the top-to-bottom run of the notebook's code cells.  Every call     *)
(* into an external library (NeMo, Lightning, transformers, wandb) is an   *)
(* opaque constructor: it either returns a record of the arguments it was  *)
(* given or raises.  The notebook has no try/except, so a raise ends the   *)
(* run.                                                                    *)
(***************************************************************************)
EXTENDS Integers, Sequences, FiniteSets, TLC

VARIABLES
    pc,             \* the statement the top-to-bottom run executes next
    env,            \* os.environ["HF_TOKEN"]
    strategy,       \* notebook global: the flag, then the strategy object
    max_steps,      \* notebook global
    num_devices,    \* notebook global
    wandb_name,     \* notebook global
    use_torch_jit,  \* notebook global
    wandb,          \* notebook global: the logger or None
    callbacks,      \* notebook global: list of callbacks
    model,          \* notebook global
    trainer,        \* notebook global
    new_checkpoint, \* notebook global: the Path computed in Step 3 / Step 4
    pipe,           \* notebook global: the text-generation pipeline
    next_id,        \* identity of the next object constructed
    log,            \* every external call made so far, with its outcome
    error,          \* the call whose exception ended the run, or None
    api             \* a direct call of make_strategy(...) by a script

vars == <<pc, env, strategy, max_steps, num_devices, wandb_name, use_torch_jit,
          wandb, callbacks, model, trainer, new_checkpoint, pipe, next_id,
          log, error, api>>

\* ------------------------------------------------------------------ bounds

MaxDevices == 3
MaxNodes == 3

\* ------------------------------------------------------- Python values

None == [type |-> "NoneType"]
Str(s) == [type |-> "str", value |-> s]

\* The flag values tried: the two recognised names, the empty default, and
\* names that differ from a recognised one by case or by a suffix.
Flags == {"", "ddp", "fsdp2", "DDP", "fsdp"}

\* ------------------------------------------------- parameter cell defaults

model_name == "meta-llama/Llama-3.2-1B"
DefaultStrategy == ""
DefaultMaxSteps == 100
accelerator == "gpu"
DefaultNumDevices == 2
DefaultWandbName == None
DefaultUseTorchJit == FALSE
\* "/opt/checkpoints/automodel_experiments/" split at "/": the leading empty
\* component is the root, the trailing one the trailing slash.
ckpt_folder == <<"", "opt", "checkpoints", "automodel_experiments", "">>

\* The step count of the stale example in the Step 3 cell's comment.
CommentMaxSteps == 10

\* ------------------------------------------------------------ make_strategy

DefaultAdapterOnly == FALSE

\* model.make_checkpoint_io(adapter_only=...): the HF checkpoint IO of `m`.
make_checkpoint_io(m, adapter_only) ==
    [type |-> "HFCheckpointIO", model |-> m, adapter_only |-> adapter_only]

\* Python's == between the flag (a str object) and a str literal.
PyStrEq(v, lit) == v.type = "str" /\ v.value = lit

\* make_strategy without its else branch: an unrecognised flag falls through
\* and the function returns None.
make_strategy_NoDefault(s, m, devices, num_nodes, adapter_only) ==
    IF PyStrEq(s, "ddp") THEN
        [value |-> [type |-> "DDPStrategy",
                    checkpoint_io |-> make_checkpoint_io(m, adapter_only)],
         io_calls |-> <<[model |-> m, adapter_only |-> adapter_only]>>]
    ELSE IF PyStrEq(s, "fsdp2") THEN
        [value |-> [type |-> "FSDP2Strategy",
                    data_parallel_size |-> devices * num_nodes,
                    tensor_parallel_size |-> 1,
                    checkpoint_io |-> make_checkpoint_io(m, adapter_only)],
         io_calls |-> <<[model |-> m, adapter_only |-> adapter_only]>>]
    ELSE
        [value |-> None, io_calls |-> <<>>]

\* make_strategy whose DDP branch calls model.make_checkpoint_io() without
\* forwarding adapter_only.
make_strategy_DropsAdapterOnly(s, m, devices, num_nodes, adapter_only) ==
    IF PyStrEq(s, "ddp") THEN
        [value |-> [type |-> "DDPStrategy",
                    checkpoint_io |-> make_checkpoint_io(m, FALSE)],
         io_calls |-> <<[model |-> m, adapter_only |-> FALSE]>>]
    ELSE IF PyStrEq(s, "fsdp2") THEN
        [value |-> [type |-> "FSDP2Strategy",
                    data_parallel_size |-> devices * num_nodes,
                    tensor_parallel_size |-> 1,
                    checkpoint_io |-> make_checkpoint_io(m, adapter_only)],
         io_calls |-> <<[model |-> m, adapter_only |-> adapter_only]>>]
    ELSE
        [value |-> [type |-> "SingleDeviceStrategy",
                    device |-> "cuda:0",
                    checkpoint_io |-> make_checkpoint_io(m, adapter_only)],
         io_calls |-> <<[model |-> m, adapter_only |-> adapter_only]>>]

\* make_strategy whose FSDP2 branch sizes data parallelism by the devices of
\* one node, ignoring num_nodes.
make_strategy_DevicesOnly(s, m, devices, num_nodes, adapter_only) ==
    IF PyStrEq(s, "ddp") THEN
        [value |-> [type |-> "DDPStrategy",
                    checkpoint_io |-> make_checkpoint_io(m, adapter_only)],
         io_calls |-> <<[model |-> m, adapter_only |-> adapter_only]>>]
    ELSE IF PyStrEq(s, "fsdp2") THEN
        [value |-> [type |-> "FSDP2Strategy",
                    data_parallel_size |-> devices,
                    tensor_parallel_size |-> 1,
                    checkpoint_io |-> make_checkpoint_io(m, adapter_only)],
         io_calls |-> <<[model |-> m, adapter_only |-> adapter_only]>>]
    ELSE
        [value |-> [type |-> "SingleDeviceStrategy",
                    device |-> "cuda:0",
                    checkpoint_io |-> make_checkpoint_io(m, adapter_only)],
         io_calls |-> <<[model |-> m, adapter_only |-> adapter_only]>>]

\* make_strategy returns [value, io_calls]: the object returned and the
\* arguments of every model.make_checkpoint_io call it made on the way.
make_strategy(s, m, devices, num_nodes, adapter_only) ==
    IF PyStrEq(s, "ddp") THEN
        [value |-> [type |-> "DDPStrategy",
                    checkpoint_io |-> make_checkpoint_io(m, adapter_only)],
         io_calls |-> <<[model |-> m, adapter_only |-> adapter_only]>>]
    ELSE IF PyStrEq(s, "fsdp2") THEN
        [value |-> [type |-> "FSDP2Strategy",
                    data_parallel_size |-> devices * num_nodes,
                    tensor_parallel_size |-> 1,
                    checkpoint_io |-> make_checkpoint_io(m, adapter_only)],
         io_calls |-> <<[model |-> m, adapter_only |-> adapter_only]>>]
    ELSE
        [value |-> [type |-> "SingleDeviceStrategy",
                    device |-> "cuda:0",
                    checkpoint_io |-> make_checkpoint_io(m, adapter_only)],
         io_calls |-> <<[model |-> m, adapter_only |-> adapter_only]>>]

\* ------------------------------------------------------------------ squad

DefaultMbs == 1
DefaultGbs == 2
SeqLength == 512

\* squad(tokenizer, mbs=1, gbs=2): the arguments it hands to
\* SquadDataModuleWithPthDataloader.
squad(tokenizer, mbs, gbs) ==
    [type |-> "SquadDataModuleWithPthDataloader",
     tokenizer |-> tokenizer,
     seq_length |-> SeqLength,
     micro_batch_size |-> mbs,
     global_batch_size |-> gbs,
     num_workers |-> 0,
     dataset_kwargs |-> [sanity_check_dist_workers |-> FALSE,
                         get_attention_mask_from_fusion |-> TRUE]]

\* ------------------------------------------------------------------ paths

\* pathlib.Path(s) for a POSIX path string given as its "/"-separated
\* components: empty components (doubled or trailing slashes) are dropped,
\* a leading empty component makes the path absolute.
Path(s) ==
    [absolute |-> Len(s) > 0 /\ s[1] = "",
     parts |-> SelectSeq(s, LAMBDA c : c # "")]

\* Path.__truediv__: an absolute right operand replaces the left one.
PathJoin(p, s) ==
    IF Path(s).absolute THEN Path(s)
    ELSE [absolute |-> p.absolute, parts |-> p.parts \o Path(s).parts]

\* Step 3: Path(ckpt_folder) /
\*   f"default--val_loss=0.0000-epoch=1-step={max_steps}-last/hf_weights"
new_checkpoint_step3(folder, steps) ==
    PathJoin(Path(folder),
             <<"default--val_loss=0.0000-epoch=1-step=" \o ToString(steps) \o "-last",
               "hf_weights">>)

\* The Step 4 expression with the step count of the Step 3 cell's comment
\* (step=10) written into the name instead of {max_steps}.
new_checkpoint_step4_Stale(folder, steps) ==
    PathJoin(Path(folder),
             <<"default--val_loss=0.0000-epoch=1-step=" \o ToString(CommentMaxSteps)
                   \o "-last",
               "hf_weights">>)

\* Step 4: the same expression, written out again in its own cell.
new_checkpoint_step4(folder, steps) ==
    PathJoin(Path(folder),
             <<"default--val_loss=0.0000-epoch=1-step=" \o ToString(steps) \o "-last",
               "hf_weights">>)

\* ------------------------------------------------------- finetune arguments

LearningRate == [mantissa |-> 1, exponent |-> -5]   \* 1e-5
LoRADim == 8

\* The keyword arguments of the llm.api.finetune call of the SFT cell; tok,
\* data and optim carry the identities of the objects built for this call.
sft_finetune_args(m, t, id) ==
    [model |-> m,
     data |-> [id |-> id + 1] @@
              squad([type |-> "AutoTokenizer", id |-> id, model_name |-> model_name],
                    DefaultMbs, 1),
     trainer |-> t,
     optim |-> [type |-> "pytorch_adam_with_flat_lr", id |-> id + 2,
                lr |-> LearningRate],
     peft |-> None,
     log |-> None]

\* The PEFT call with squad(...) called without gbs=1, taking its default.
peft_finetune_args_DefaultGbs(m, t, id) ==
    [model |-> m,
     data |-> [id |-> id + 1] @@
              squad([type |-> "AutoTokenizer", id |-> id, model_name |-> model_name],
                    DefaultMbs, DefaultGbs),
     trainer |-> t,
     optim |-> [type |-> "pytorch_adam_with_flat_lr", id |-> id + 2,
                lr |-> LearningRate],
     peft |-> [type |-> "LoRA", id |-> id + 3,
               target_modules |-> <<"*_proj">>, dim |-> LoRADim],
     log |-> None]

\* The keyword arguments of the llm.api.finetune call of the PEFT cell.
peft_finetune_args(m, t, id) ==
    [model |-> m,
     data |-> [id |-> id + 1] @@
              squad([type |-> "AutoTokenizer", id |-> id, model_name |-> model_name],
                    DefaultMbs, 1),
     trainer |-> t,
     optim |-> [type |-> "pytorch_adam_with_flat_lr", id |-> id + 2,
                lr |-> LearningRate],
     peft |-> [type |-> "LoRA", id |-> id + 3,
               target_modules |-> <<"*_proj">>, dim |-> LoRADim],
     log |-> None]

\* ---------------------------------------------------------------- the log

\* One external call: its name, the notebook Step (2, 3 or 4) of the cell that
\* makes it, its arguments, and whether it returned or raised.
Entry(call, step, args, outcome) ==
    [call |-> call, step |-> step, args |-> args, outcome |-> outcome]

Returned(call, step, args) == Entry(call, step, args, "returned")

\* A raise that is caught and the statement tried again: the exception is
\* recorded but the run stays at the same statement.
RaiseRetry(before, call, step, args) ==
    /\ pc' = pc
    /\ error' = Str(call)
    /\ log' = log \o before \o <<Entry(call, step, args, "raised")>>
    /\ UNCHANGED <<env, strategy, max_steps, num_devices, wandb_name,
                   use_torch_jit, wandb, callbacks, model, trainer,
                   new_checkpoint, pipe, next_id, api>>

\* An exception leaves the cell and stops the run: nothing in the notebook
\* catches it.  `before` are the calls of the same statement that returned
\* before the one that raised.
Raise(before, call, step, args) ==
    /\ pc' = "error"
    /\ error' = Str(call)
    /\ log' = log \o before \o <<Entry(call, step, args, "raised")>>
    /\ UNCHANGED <<env, strategy, max_steps, num_devices, wandb_name,
                   use_torch_jit, wandb, callbacks, model, trainer,
                   new_checkpoint, pipe, next_id, api>>

\* ------------------------------------------------------------------- Init

MaxStepsChoices == {DefaultMaxSteps, CommentMaxSteps}

Init ==
    /\ pc = "hf_token"
    /\ env = None
    /\ strategy \in {Str(f) : f \in Flags}
    /\ max_steps \in MaxStepsChoices
    /\ num_devices \in 1..MaxDevices
    /\ wandb_name \in {None, Str("sft")}
    /\ use_torch_jit \in BOOLEAN
    /\ wandb = None
    /\ callbacks = <<>>
    /\ model = None
    /\ trainer = None
    /\ new_checkpoint = None
    /\ pipe = None
    /\ next_id = 1
    /\ log = <<>>
    /\ error = None
    /\ api = None

\* ------------------------------------------------ Step 2: the token cell

\* os.environ["HF_TOKEN"] = '<HF_TOKEN>'
HfToken ==
    /\ pc = "hf_token"
    /\ env' = Str("<HF_TOKEN>")
    /\ log' = Append(log, Returned("os.environ.__setitem__", 2,
                                   [key |-> "HF_TOKEN", value |-> "<HF_TOKEN>"]))
    /\ pc' = "wandb"
    /\ UNCHANGED <<strategy, max_steps, num_devices, wandb_name, use_torch_jit,
                   wandb, callbacks, model, trainer, new_checkpoint, pipe,
                   next_id, error, api>>

\* ---------------------------------------------- Step 2: the training cell

WandbArgs == [project |-> "nemo_automodel", name |-> wandb_name]

\* wandb = WandbLogger(...) if wandb_name is not None else None
Wandb ==
    /\ pc = "wandb"
    /\ \/ /\ wandb_name # None
          /\ wandb' = [type |-> "WandbLogger", id |-> next_id] @@ WandbArgs
          /\ next_id' = next_id + 1
          /\ log' = Append(log, Returned("WandbLogger", 2, WandbArgs))
          /\ pc' = "jit"
          /\ UNCHANGED <<env, strategy, max_steps, num_devices, wandb_name,
                         use_torch_jit, callbacks, model, trainer,
                         new_checkpoint, pipe, error, api>>
       \/ /\ wandb_name # None
          /\ Raise(<<>>, "WandbLogger", 2, WandbArgs)
       \/ /\ wandb_name = None
          /\ wandb' = None
          /\ pc' = "jit"
          /\ UNCHANGED <<env, strategy, max_steps, num_devices, wandb_name,
                         use_torch_jit, callbacks, model, trainer,
                         new_checkpoint, pipe, next_id, log, error, api>>

JitConfigArgs == [use_torch |-> TRUE, torch_kwargs |-> [dynamic |-> FALSE],
                  use_thunder |-> FALSE]

\* callbacks = []; if use_torch_jit: callbacks = [JitTransform(JitConfig(...))]
Jit ==
    /\ pc = "jit"
    /\ \/ /\ use_torch_jit
          /\ callbacks' = <<[type |-> "JitTransform", id |-> next_id + 1,
                             config |-> [type |-> "JitConfig", id |-> next_id]
                                        @@ JitConfigArgs]>>
          /\ next_id' = next_id + 2
          /\ log' = log \o <<Returned("JitConfig", 2, JitConfigArgs),
                             Returned("JitTransform", 2, JitConfigArgs)>>
          /\ pc' = "checkpoint_callback"
          /\ UNCHANGED <<env, strategy, max_steps, num_devices, wandb_name,
                         use_torch_jit, wandb, model, trainer, new_checkpoint,
                         pipe, error, api>>
       \/ /\ use_torch_jit
          /\ Raise(<<>>, "JitConfig", 2, JitConfigArgs)
       \/ /\ use_torch_jit
          /\ Raise(<<Returned("JitConfig", 2, JitConfigArgs)>>,
                   "JitTransform", 2, JitConfigArgs)
       \/ /\ ~use_torch_jit
          /\ callbacks' = <<>>
          /\ pc' = "checkpoint_callback"
          /\ UNCHANGED <<env, strategy, max_steps, num_devices, wandb_name,
                         use_torch_jit, wandb, model, trainer, new_checkpoint,
                         pipe, next_id, log, error, api>>

ModelCheckpointArgs ==
    [every_n_train_steps |-> max_steps \div 2, dirpath |-> ckpt_folder]

\* callbacks.append(nl.ModelCheckpoint(every_n_train_steps=max_steps // 2,
\*                                     dirpath=ckpt_folder))
CheckpointCallback ==
    /\ pc = "checkpoint_callback"
    /\ \/ /\ callbacks' = Append(callbacks,
                                 [type |-> "ModelCheckpoint", id |-> next_id]
                                 @@ ModelCheckpointArgs)
          /\ next_id' = next_id + 1
          /\ log' = Append(log, Returned("ModelCheckpoint", 2, ModelCheckpointArgs))
          /\ pc' = "model"
          /\ UNCHANGED <<env, strategy, max_steps, num_devices, wandb_name,
                         use_torch_jit, wandb, model, trainer, new_checkpoint,
                         pipe, error, api>>
       \/ Raise(<<>>, "ModelCheckpoint", 2, ModelCheckpointArgs)

\* model = llm.HFAutoModelForCausalLM(model_name=model_name)
Model ==
    /\ pc = "model"
    /\ \/ /\ model' = [type |-> "HFAutoModelForCausalLM", id |-> next_id,
                       model_name |-> model_name]
          /\ next_id' = next_id + 1
          /\ log' = Append(log, Returned("HFAutoModelForCausalLM", 2,
                                         [model_name |-> model_name]))
          /\ pc' = "strategy"
          /\ UNCHANGED <<env, strategy, max_steps, num_devices, wandb_name,
                         use_torch_jit, wandb, callbacks, trainer,
                         new_checkpoint, pipe, error, api>>
       \/ Raise(<<>>, "HFAutoModelForCausalLM", 2, [model_name |-> model_name])

\* The external calls of a make_strategy call that returned `r`: one per
\* make_checkpoint_io call, then the strategy's constructor.
StrategyEntries(r, step) ==
    [i \in 1..Len(r.io_calls) |->
        Returned("model.make_checkpoint_io", step, r.io_calls[i])]
    \o <<Returned(r.value.type, step, r.value)>>

\* The positional arguments of the notebook's make_strategy call; adapter_only
\* is omitted and takes its default.
MakeStrategyArgs ==
    [strategy |-> strategy, model |-> model, devices |-> num_devices,
     num_nodes |-> 1]

\* strategy = make_strategy(strategy, model, num_devices, 1)
Strategy ==
    /\ pc = "strategy"
    /\ LET a == MakeStrategyArgs
           r == make_strategy(a.strategy, a.model, a.devices, a.num_nodes,
                              DefaultAdapterOnly)
           made == StrategyEntries(r, 2)
       IN \/ /\ strategy' = [id |-> next_id] @@ r.value
             /\ next_id' = next_id + 1
             /\ log' = log \o made \o <<Returned("make_strategy", 2, a)>>
             /\ pc' = "trainer"
             /\ UNCHANGED <<env, max_steps, num_devices, wandb_name,
                            use_torch_jit, wandb, callbacks, model, trainer,
                            new_checkpoint, pipe, error, api>>
          \/ \E k \in 1..Len(made) :
                Raise(SubSeq(made, 1, k - 1), made[k].call, 2, made[k].args)

TrainerArgs ==
    [devices |-> num_devices,
     max_steps |-> max_steps,
     accelerator |-> "gpu",
     strategy |-> strategy,
     log_every_n_steps |-> 1,
     limit_val_batches |-> 0,
     num_sanity_val_steps |-> 0,
     accumulate_grad_batches |-> 1,
     gradient_clip_val |-> 1,
     use_distributed_sampler |-> FALSE,
     logger |-> wandb,
     callbacks |-> callbacks,
     precision |-> "bf16"]

\* trainer = nl.Trainer(devices=num_devices, max_steps=max_steps, ...)
Trainer ==
    /\ pc = "trainer"
    /\ \/ /\ trainer' = [type |-> "Trainer", id |-> next_id] @@ TrainerArgs
          /\ next_id' = next_id + 1
          /\ log' = Append(log, Returned("Trainer", 2, TrainerArgs))
          /\ pc' = "sft_finetune"
          /\ UNCHANGED <<env, strategy, max_steps, num_devices, wandb_name,
                         use_torch_jit, wandb, callbacks, model,
                         new_checkpoint, pipe, error, api>>
       \/ Raise(<<>>, "Trainer", 2, TrainerArgs)

\* The external calls of one llm.api.finetune(...) statement, in Python's
\* evaluation order: the arguments left to right, then the call itself.
FinetuneEntries(a) ==
    <<Returned("configure_tokenizer", 2, a.data.tokenizer),
      Returned("SquadDataModuleWithPthDataloader", 2, a.data),
      Returned("pytorch_adam_with_flat_lr", 2, a.optim)>>
    \o (IF a.peft = None THEN <<>> ELSE <<Returned("LoRA", 2, a.peft)>>)
    \o <<Returned("finetune", 2, a)>>

\* llm.api.finetune(model=model, data=squad(..., gbs=1), trainer=trainer,
\*                  optim=..., peft=None, log=None)
SftFinetune ==
    /\ pc = "sft_finetune"
    /\ LET made == FinetuneEntries(sft_finetune_args(model, trainer, next_id))
       IN \/ /\ log' = log \o made
             /\ next_id' = next_id + 3
             /\ pc' = "peft_finetune"
             /\ UNCHANGED <<env, strategy, max_steps, num_devices, wandb_name,
                            use_torch_jit, wandb, callbacks, model, trainer,
                            new_checkpoint, pipe, error, api>>
          \/ \E k \in 1..Len(made) :
                Raise(SubSeq(made, 1, k - 1), made[k].call, 2, made[k].args)

\* The next code cell: llm.api.finetune(..., peft=llm.peft.LoRA(...), log=None)
PeftFinetune ==
    /\ pc = "peft_finetune"
    /\ LET made == FinetuneEntries(peft_finetune_args(model, trainer, next_id))
       IN \/ /\ log' = log \o made
             /\ next_id' = next_id + 4
             /\ pc' = "new_checkpoint_3"
             /\ UNCHANGED <<env, strategy, max_steps, num_devices, wandb_name,
                            use_torch_jit, wandb, callbacks, model, trainer,
                            new_checkpoint, pipe, error, api>>
          \/ \E k \in 1..Len(made) :
                Raise(SubSeq(made, 1, k - 1), made[k].call, 2, made[k].args)

\* ---------------------------------------------------- Step 3: inference

\* new_checkpoint = Path(ckpt_folder) / f"...step={max_steps}-last/hf_weights"
NewCheckpoint3 ==
    /\ pc = "new_checkpoint_3"
    /\ new_checkpoint' = new_checkpoint_step3(ckpt_folder, max_steps)
    /\ pc' = "pipeline"
    /\ UNCHANGED <<env, strategy, max_steps, num_devices, wandb_name,
                   use_torch_jit, wandb, callbacks, model, trainer, pipe,
                   next_id, log, error, api>>

\* The external calls of pipe = pipeline("text-generation", model=..., ...).
PipelineEntries(path, id) ==
    <<Returned("AutoModelForCausalLM.from_pretrained", 3, [path |-> path]),
      Returned("AutoTokenizer.from_pretrained", 3, [path |-> path]),
      Returned("pipeline", 3,
               [task |-> "text-generation",
                model |-> [type |-> "AutoModelForCausalLM", id |-> id, path |-> path],
                tokenizer |-> [type |-> "AutoTokenizer", id |-> id + 1, path |-> path],
                torch_dtype |-> "bfloat16",
                device_map |-> "auto"])>>

\* pipe = pipeline("text-generation",
\*                 model=AutoModelForCausalLM.from_pretrained(new_checkpoint),
\*                 tokenizer=AutoTokenizer.from_pretrained(new_checkpoint), ...)
Pipeline ==
    /\ pc = "pipeline"
    /\ LET made == PipelineEntries(new_checkpoint, next_id)
       IN \/ /\ pipe' = [type |-> "pipeline", id |-> next_id + 2] @@ made[3].args
             /\ next_id' = next_id + 3
             /\ log' = log \o made
             /\ pc' = "generate"
             /\ UNCHANGED <<env, strategy, max_steps, num_devices, wandb_name,
                            use_torch_jit, wandb, callbacks, model, trainer,
                            new_checkpoint, error, api>>
          \/ \E k \in 1..Len(made) :
                Raise(SubSeq(made, 1, k - 1), made[k].call, 3, made[k].args)

GenerateArgs == [pipe |-> pipe, prompt |-> "The key to life is"]

\* pipe("The key to life is")
Generate ==
    /\ pc = "generate"
    /\ \/ /\ log' = Append(log, Returned("pipe", 3, GenerateArgs))
          /\ pc' = "new_checkpoint_4"
          /\ UNCHANGED <<env, strategy, max_steps, num_devices, wandb_name,
                         use_torch_jit, wandb, callbacks, model, trainer,
                         new_checkpoint, pipe, next_id, error, api>>
       \/ Raise(<<>>, "pipe", 3, GenerateArgs)

\* ------------------------------------------------------ Step 4: publish

\* new_checkpoint = Path(ckpt_folder) / f"...step={max_steps}-last/hf_weights"
NewCheckpoint4 ==
    /\ pc = "new_checkpoint_4"
    /\ new_checkpoint' = new_checkpoint_step4(ckpt_folder, max_steps)
    /\ pc' = "push_to_hub"
    /\ UNCHANGED <<env, strategy, max_steps, num_devices, wandb_name,
                   use_torch_jit, wandb, callbacks, model, trainer, pipe,
                   next_id, log, error, api>>

\* The external calls of from_pretrained(new_checkpoint).push_to_hub(repo).
PushEntries(path, id) ==
    <<Returned("AutoModelForCausalLM.from_pretrained", 4, [path |-> path]),
      Returned("push_to_hub", 4,
               [model |-> [type |-> "AutoModelForCausalLM", id |-> id, path |-> path],
                repo |-> "<account/your-hf-repo>"])>>

\* AutoModelForCausalLM.from_pretrained(new_checkpoint).push_to_hub("<...>")
PushToHub ==
    /\ pc = "push_to_hub"
    /\ LET made == PushEntries(new_checkpoint, next_id)
       IN \/ /\ log' = log \o made
             /\ next_id' = next_id + 1
             /\ pc' = "done"
             /\ UNCHANGED <<env, strategy, max_steps, num_devices, wandb_name,
                            use_torch_jit, wandb, callbacks, model, trainer,
                            new_checkpoint, pipe, error, api>>
          \/ \E k \in 1..Len(made) :
                Raise(SubSeq(made, 1, k - 1), made[k].call, 4, made[k].args)

\* ------------------------------------- make_strategy called from a script

\* The model a script hands to make_strategy.
ScriptModel ==
    [type |-> "HFAutoModelForCausalLM", id |-> 0, model_name |-> model_name]

\* A script (the notebook's NOTE: "if you move the code to a script") calls
\* make_strategy(flag, model, devices, num_nodes, adapter_only) once, with
\* any flag, any positive devices and num_nodes, and either adapter_only.
CallMakeStrategy ==
    /\ api = None
    /\ \E f \in Flags, d \in 1..MaxDevices, n \in 1..MaxNodes, a \in BOOLEAN :
          api' = [args |-> [strategy |-> f, devices |-> d, num_nodes |-> n,
                            adapter_only |-> a],
                  ret |-> make_strategy(Str(f), ScriptModel, d, n, a)]
    /\ UNCHANGED <<pc, env, strategy, max_steps, num_devices, wandb_name,
                   use_torch_jit, wandb, callbacks, model, trainer,
                   new_checkpoint, pipe, next_id, log, error>>

\* ------------------------------------------------------- specifications

\* The notebook's cells, run top to bottom.
Next ==
    \/ HfToken
    \/ Wandb
    \/ Jit
    \/ CheckpointCallback
    \/ Model
    \/ Strategy
    \/ Trainer
    \/ SftFinetune
    \/ PeftFinetune
    \/ NewCheckpoint3
    \/ Pipeline
    \/ Generate
    \/ NewCheckpoint4
    \/ PushToHub

Spec == Init /\ [][Next]_vars

\* The notebook run together with a script's call of make_strategy.  The
\* notebook parameters make_strategy never sees stay at their defaults.
InitAPI ==
    /\ Init
    /\ max_steps = DefaultMaxSteps
    /\ wandb_name = DefaultWandbName
    /\ use_torch_jit = DefaultUseTorchJit

NextAPI ==
    \/ Next
    \/ CallMakeStrategy

SpecAPI == InitAPI /\ [][NextAPI]_vars

\* ----------------------------------------------------------------- claims

\* The positions of the log entries of calls named `call`.
Calls(call) == {i \in 1..Len(log) : log[i].call = call}

StrategyTypes == {"DDPStrategy", "FSDP2Strategy", "SingleDeviceStrategy"}

\* The three-way selection, for a flag `f` and the object `v` returned for it.
ThreeWay(f, v) ==
    /\ v.type \in StrategyTypes
    /\ (v.type = "DDPStrategy") <=> (f = "ddp")
    /\ (v.type = "FSDP2Strategy") <=> (f = "fsdp2")
    /\ (f \notin {"ddp", "fsdp2"}) =>
          (v.type = "SingleDeviceStrategy" /\ v.device = "cuda:0")

\* C1: make_strategy is a total three-way selection on its flag.  Whenever the
\* external constructors return, a call returns a strategy object and never
\* None: the DDP strategy exactly for 'ddp', the FSDP2 strategy exactly for
\* 'fsdp2', and the single-device strategy on 'cuda:0' for every other flag
\* (the empty string and unknown names included).  This holds of a script's
\* call with any arguments and of the notebook's own call.
C1_ThreeWaySelection ==
    /\ api # None => ThreeWay(api.args.strategy, api.ret.value)
    /\ \A i \in Calls("make_strategy") :
          ThreeWay(log[i].args.strategy.value, strategy)

\* C1 witness: an unknown flag ('DDP': wrong case) got the single-device
\* strategy, and 'ddp' and 'fsdp2' are distinguished in the notebook run.
C1_Witness ==
    /\ api # None
    /\ api.args.strategy = "DDP"
    /\ api.ret.value.type = "SingleDeviceStrategy"
    /\ \E i \in Calls("make_strategy") :
          log[i].args.strategy.value = "fsdp2" /\ strategy.type = "FSDP2Strategy"

\* The checkpoint IO of model `m` made with adapter_only = `a`.
IsCheckpointIOOf(io, m, a) ==
    io.type = "HFCheckpointIO" /\ io.model = m /\ io.adapter_only = a

\* C2: every strategy make_strategy returns carries the checkpoint_io that
\* model.make_checkpoint_io returned, and that method is called exactly once,
\* with the adapter_only make_strategy received; the notebook omits
\* adapter_only, so its call passes False.
C2_CheckpointIO ==
    /\ api # None =>
          /\ Len(api.ret.io_calls) = 1
          /\ api.ret.io_calls[1] = [model |-> ScriptModel,
                                    adapter_only |-> api.args.adapter_only]
          /\ IsCheckpointIOOf(api.ret.value.checkpoint_io, ScriptModel,
                              api.args.adapter_only)
    /\ \A i \in Calls("make_strategy") :
          /\ Cardinality(Calls("model.make_checkpoint_io")) = 1
          /\ \A j \in Calls("model.make_checkpoint_io") :
                j < i /\ log[j].args = [model |-> model, adapter_only |-> FALSE]
          /\ IsCheckpointIOOf(strategy.checkpoint_io, model, FALSE)

\* C2 witness: a script asked for adapter_only = True on the DDP branch, and
\* the notebook's call (adapter_only omitted) has returned.
C2_Witness ==
    /\ api # None
    /\ api.args.adapter_only = TRUE
    /\ api.args.strategy = "ddp"
    /\ api.ret.value.checkpoint_io.adapter_only = TRUE
    /\ Calls("make_strategy") # {}

\* The eight workflow events, numbered in the order of the workflow, by call
\* name; 0 for a call that is none of them.
Rank(call) ==
    CASE call = "os.environ.__setitem__" -> 1
      [] call = "HFAutoModelForCausalLM" -> 2
      [] call = "make_strategy" -> 3
      [] call = "Trainer" -> 4
      [] call = "finetune" -> 5
      [] call = "AutoModelForCausalLM.from_pretrained" -> 6
      [] call = "pipe" -> 7
      [] call = "push_to_hub" -> 8
      [] OTHER -> 0

\* The positions of the workflow events of rank k that completed.
Events(k) ==
    {i \in 1..Len(log) : Rank(log[i].call) = k /\ log[i].outcome = "returned"}

\* The position of the first event of rank k (0 when there is none).
First(k) ==
    IF Events(k) = {} THEN 0
    ELSE CHOOSE i \in Events(k) : \A j \in Events(k) : i <= j

\* C3: in a top-to-bottom run the workflow events (token, model, strategy,
\* trainer, finetune, reload, inference, push) first occur in that order,
\* each only after the one before it completed, and each happens at most
\* once in a notebook Step; nothing is reloaded or pushed before finetune
\* returned.
C3_FixedOrderOnce ==
    /\ \A k \in 2..8 :
          First(k) # 0 => (First(k - 1) # 0 /\ First(k - 1) < First(k))
    /\ \A k \in 1..8 : \A i, j \in Events(k) :
          log[i].step = log[j].step => i = j

\* C4: with the parameter cell's defaults the run is configured for a single
\* GPU: make_strategy selected the single-device strategy on 'cuda:0' and
\* the trainer was given devices = 1.
C4_DefaultsSingleGpu ==
    \A i \in Calls("Trainer") :
        ( /\ \E j \in Calls("make_strategy") :
                log[j].args.strategy = Str(DefaultStrategy)
          /\ num_devices = DefaultNumDevices
          /\ max_steps = DefaultMaxSteps
          /\ wandb_name = DefaultWandbName
          /\ use_torch_jit = DefaultUseTorchJit
          /\ log[i].outcome = "returned" )
        => /\ log[i].args.strategy.type = "SingleDeviceStrategy"
           /\ log[i].args.strategy.device = "cuda:0"
           /\ log[i].args.devices = 1

\* The paths handed to from_pretrained (model or tokenizer) in Step `step`.
Reloaded(step) ==
    {log[i].args.path :
        i \in {j \in Calls("AutoModelForCausalLM.from_pretrained")
                     \cup Calls("AutoTokenizer.from_pretrained") :
               log[j].step = step}}

\* "/opt/checkpoints/automodel_experiments" followed by the checkpoint name
\* for `steps` training steps and "hf_weights".
ExpectedCheckpoint(steps) ==
    [absolute |-> TRUE,
     parts |-> <<"opt", "checkpoints", "automodel_experiments",
                 "default--val_loss=0.0000-epoch=1-step=" \o ToString(steps) \o "-last",
                 "hf_weights">>]

C6_FailureEndsRun ==
    /\ \A i \in 1..Len(log) :
          log[i].outcome = "raised" =>
              (i = Len(log) /\ pc = "error" /\ error = Str(log[i].call))
    /\ (pc = "error") <=> (Len(log) > 0 /\ log[Len(log)].outcome = "raised")
    /\ (error # None) <=> (pc = "error")

\* C6 witness: finetune raised after the trainer was built, and the run
\* stands in the error state.
C6_Witness ==
    /\ pc = "error"
    /\ error = Str("finetune")
    /\ trainer # None
    /\ log[Len(log)].outcome = "raised"

\* A data module's configuration: the data module without the identities of
\* the objects built for it.
DataConfig(d) == [d EXCEPT !.id = 0, !.tokenizer.id = 0]

\* C7: the SFT and the PEFT finetune calls get the same model object, the
\* same trainer object, data modules of the same configuration (same
\* tokenizer source, gbs = 1), optimizers with lr = 1e-5, and log = None; they
\* differ only in peft: None for SFT, LoRA(['*_proj'], dim 8) for PEFT.
C7_PeftDiffersOnlyInPeft ==
    \A i, j \in Calls("finetune") :
        i < j =>
            LET a == log[i].args
                b == log[j].args
            IN /\ DOMAIN a = DOMAIN b
               /\ a.model = b.model
               /\ a.trainer = b.trainer
               /\ DataConfig(a.data) = DataConfig(b.data)
               /\ a.data.global_batch_size = 1
               /\ a.data.tokenizer.model_name = model_name
               /\ [a.optim EXCEPT !.id = 0] = [b.optim EXCEPT !.id = 0]
               /\ a.optim.lr = [mantissa |-> 1, exponent |-> -5]
               /\ a.log = None /\ b.log = None
               /\ a.peft = None
               /\ b.peft.type = "LoRA"
               /\ b.peft.target_modules = <<"*_proj">>
               /\ b.peft.dim = 8

\* C7 witness: both finetune calls of a run were made and returned.
C7_Witness ==
    \E i, j \in Calls("finetune") :
        /\ i < j
        /\ log[i].outcome = "returned"
        /\ log[j].outcome = "returned"

\* C8: for the flag 'fsdp2' make_strategy builds the FSDP2 strategy with
\* data_parallel_size = devices * num_nodes and tensor_parallel_size = 1,
\* for all positive devices and num_nodes; in the notebook, which passes
\* num_nodes = 1, data_parallel_size is the num_devices the trainer gets as
\* devices.
C8_Fsdp2Sizes ==
    /\ (api # None /\ api.args.strategy = "fsdp2") =>
          /\ api.ret.value.type = "FSDP2Strategy"
          /\ api.ret.value.data_parallel_size
               = api.args.devices * api.args.num_nodes
          /\ api.ret.value.tensor_parallel_size = 1
    /\ \A i \in Calls("make_strategy") :
          log[i].args.strategy = Str("fsdp2") =>
              /\ log[i].args.num_nodes = 1
              /\ strategy.type = "FSDP2Strategy"
              /\ strategy.data_parallel_size = num_devices
              /\ strategy.tensor_parallel_size = 1
              /\ \A t \in Calls("Trainer") :
                    log[t].args.devices = strategy.data_parallel_size

\* C8 witness: a script's call with devices = 2, num_nodes = 3 got
\* data_parallel_size 6, and a notebook run with 'fsdp2' built its trainer.
C8_Witness ==
    /\ api # None
    /\ api.args = [strategy |-> "fsdp2", devices |-> 2, num_nodes |-> 3,
                   adapter_only |-> FALSE]
    /\ api.ret.value.data_parallel_size = 6
    /\ \E i \in Calls("make_strategy") : log[i].args.strategy = Str("fsdp2")
    /\ trainer # None

====
